---- MODULE Spec2Model ----
(***************************************************************************)
(* Model of WinCC_AlarmLogging_Exporter (src/main.py): the discovery and   *)
(* export pipeline of export_alarmlogging_data, with the connections it    *)
(* opens and closes, the exceptions each call can raise and the files it   *)
(* writes.  The SQL server and the file system are the environment: every  *)
(* call into them either succeeds or raises an Exception subclass.         *)
(* print() and Connection.close() are taken not to raise.                  *)
(***************************************************************************)
EXTENDS Integers, Sequences, FiniteSets, TLC

(* Bounds of the model. *)
MaxRows == 3        \* largest result set a view returns
BatchSize == 2      \* rows per fetchmany; 10_000 in the source, scaled down
MaxRuns == 2        \* how many times the script is run

DbNames == {"A_ALG_1", "B_ALG_2"}     \* names the catalog can hold
Versions == {"v1", "v2"}              \* contents the views can have

VARIABLES
    pc,             \* position in export_alarmlogging_data and its callees
    online,         \* server: the online databases whose name has _ALG_
    dataVer,        \* server: version of the rows the views hold
    self_conn,      \* self.conn: "None" or the id of the catalog connection
    conn,           \* local conn of _process_database_views: "unbound" or id
    openConns,      \* ids of the connections that are open
    closedConns,    \* ids of the connections that were closed, with counts
    alg_databases,  \* local alg_databases
    dbIdx,          \* position of the for loop over alg_databases
    viewIdx,        \* position of the for loop over self.target_views
    resultSet,      \* rows the engine returned for the current SELECT *
    pending,        \* rows of resultSet not fetched yet
    written,        \* number of lines written since the file was opened
    fetches,        \* number of fetchmany calls of the current export
    prior,          \* the file as it was before the current export opened it
    dirs,           \* file system: directories that exist
    files,          \* file system: path -> [exists, lines]
    touched,        \* paths this run created, opened or was asked to create
    exc,            \* exception propagating out of the current frame
    lastLog,        \* the last line printed
    trace,          \* outcome of each target view of the current database
    found,          \* databases where some existence check returned true
    queries,        \* number of discovery queries issued in this run
    masterOpens,    \* number of catalog connections opened in this run
    run             \* number of the current run of the script

vars == <<pc, online, dataVer, self_conn, conn, openConns, closedConns,
          alg_databases, dbIdx, viewIdx, resultSet, pending, written, fetches,
          prior, dirs, files, touched, exc, lastLog, trace, found, queries,
          masterOpens, run>>

(* self.target_views, src/main.py:22-27 *)
target_views == <<"AlgViewENU_ID_OPT", "AlgViewRUS_ID_OPT", "AlgViewDEU_ID_OPT">>

Min(a, b) == IF a < b THEN a ELSE b

(* ---- paths ------------------------------------------------------------ *)
OutputDir == <<"wincc_alarmlogging_export">>
DbDir(db) == OutputDir \o <<db>>
CsvPath(db, view) == DbDir(db) \o <<view>>

AllFilePaths == {CsvPath(d, target_views[v]) : d \in DbNames, v \in 1..Len(target_views)}

Absent == [exists |-> FALSE, lines |-> <<>>]

(* os.makedirs(path, exist_ok=True): the directory and its parents exist. *)
Prefixes(path) == {SubSeq(path, 1, n) : n \in 1..Len(path)}
makedirs(ds, path) == ds \cup Prefixes(path)

(* ---- csv -------------------------------------------------------------- *)
HeaderLine == [kind |-> "header", ver |-> "", idx |-> 0]
RowLine(row) == [kind |-> "data", ver |-> row[1], idx |-> row[2]]

(* writer.writerow(columns) *)
writerow(lines) == Append(lines, HeaderLine)

(* writer.writerows(batch): one line per row, in the batch's order *)
RECURSIVE writerows(_, _)
writerows(lines, batch) ==
    IF batch = <<>> THEN lines
    ELSE writerows(Append(lines, RowLine(Head(batch))), Tail(batch))

(* a file opened with 'a' instead of 'w': the old lines stay *)
OpenForAppend(f) == [exists |-> TRUE, lines |-> f.lines]

(* open(csv_path, 'w'): the file exists and is empty *)
OpenForWrite(f) == [exists |-> TRUE, lines |-> <<>>]

(* a batch one row short of what the cursor advances by *)
fetchmany_offByOne(rows, n) == SubSeq(rows, 1, Min(n - 1, Len(rows)))

(* cursor.fetchmany(n): the next n rows, fewer when fewer are left *)
fetchmany(rows, n) == SubSeq(rows, 1, Min(n, Len(rows)))
AfterFetch(rows, n) == SubSeq(rows, Min(n, Len(rows)) + 1, Len(rows))

(* the rows a view holds: n rows of the current data version *)
ViewRows(n, ver) == [i \in 1..n |-> <<ver, i>>]

(* ---- the catalog ------------------------------------------------------ *)
(* ORDER BY name: ascending listing of a set of names *)
RECURSIVE SortedSeq(_)
SortedSeq(S) ==
    IF S = {} THEN <<>>
    ELSE LET m == CHOOSE x \in S : \A y \in S :
                     x = y \/ (x = "A_ALG_1" /\ y = "B_ALG_2")
         IN <<m>> \o SortedSeq(S \ {m})

CurDb == alg_databases[dbIdx]
CurView == target_views[viewIdx]
CurPath == CsvPath(CurDb, CurView)

MasterId == "master"

Close(id) ==
    /\ openConns' = openConns \ {id}
    /\ closedConns' = [closedConns EXCEPT ![id] = @ + 1]


NoConnCounts == [id \in {MasterId} \cup DbNames |-> 0]

(* ---- state after construction (__init__) and an empty output location -- *)
Init ==
    /\ pc = "start"
    /\ online \in SUBSET DbNames
    /\ dataVer = "v1"
    /\ self_conn = "None"
    /\ conn = "unbound"
    /\ openConns = {}
    /\ closedConns = NoConnCounts
    /\ alg_databases = <<>>
    /\ dbIdx = 0
    /\ viewIdx = 0
    /\ resultSet = <<>>
    /\ pending = <<>>
    /\ written = 0
    /\ fetches = 0
    /\ prior = Absent
    /\ dirs = {}
    /\ files = [p \in AllFilePaths |-> Absent]
    /\ touched = {}
    /\ exc = "none"
    /\ lastLog = "none"
    /\ trace = <<>>
    /\ found = {}
    /\ queries = 0
    /\ masterOpens = 0
    /\ run = 1

Server == <<online, dataVer>>
FileSystem == <<dirs, files, touched>>
ExportLocals == <<resultSet, pending, written, fetches, prior>>
DbLocals == <<conn, viewIdx, trace, found>>
Connections == <<self_conn, openConns, closedConns, masterOpens>>

(* _connect_to_master with the connection error swallowed *)
connect_to_master_swallow ==
    /\ pc = "start"
    /\ \/ /\ self_conn' = MasterId
          /\ openConns' = openConns \cup {MasterId}
          /\ masterOpens' = masterOpens + 1
          /\ pc' = "discover"
          /\ exc' = exc
       \/ /\ exc' = exc
          /\ pc' = "discover"
          /\ UNCHANGED <<self_conn, openConns, masterOpens>>
    /\ UNCHANGED <<Server, closedConns, alg_databases, dbIdx, DbLocals,
                   ExportLocals, FileSystem, lastLog, queries, run>>

(* ---- _connect_to_master, called at line 39 ----------------------------- *)
connect_to_master ==
    /\ pc = "start"
    /\ \/ \* pyodbc.connect and conn.cursor() succeed
          /\ self_conn' = MasterId
          /\ openConns' = openConns \cup {MasterId}
          /\ masterOpens' = masterOpens + 1
          /\ pc' = "discover"
          /\ exc' = exc
       \/ \* pyodbc.connect raises: self.conn stays None
          /\ exc' = "pyodbc.Error"
          /\ pc' = "finally"
          /\ UNCHANGED <<self_conn, openConns, masterOpens>>
       \/ \* self.conn is assigned, then self.conn.cursor() raises
          /\ self_conn' = MasterId
          /\ openConns' = openConns \cup {MasterId}
          /\ masterOpens' = masterOpens + 1
          /\ exc' = "pyodbc.Error"
          /\ pc' = "finally"
    /\ UNCHANGED <<Server, closedConns, alg_databases, dbIdx, DbLocals,
                   ExportLocals, FileSystem, lastLog, queries, run>>

(* ---- _get_alg_databases and the test of line 42 ------------------------ *)
get_alg_databases ==
    /\ pc = "discover"
    /\ queries' = queries + 1
    /\ \/ \* the query returns the online _ALG_ databases, ORDER BY name
          /\ alg_databases' = SortedSeq(online)
          /\ IF alg_databases' = <<>>
                THEN /\ lastLog' = "no_databases"
                     /\ pc' = "finally"
                ELSE /\ lastLog' = lastLog
                     /\ pc' = "makedirs"
          /\ exc' = exc
       \/ \* execute or fetchall raises
          /\ exc' = "pyodbc.Error"
          /\ pc' = "finally"
          /\ UNCHANGED <<alg_databases, lastLog>>
    /\ UNCHANGED <<Server, Connections, dbIdx, DbLocals, ExportLocals,
                   FileSystem, run>>

(* ---- os.makedirs(output_dir, exist_ok=True), line 46 ------------------- *)
make_output_dir ==
    /\ pc = "makedirs"
    /\ \/ /\ dirs' = makedirs(dirs, OutputDir)
          /\ touched' = touched \cup {OutputDir}
          /\ dbIdx' = 1
          /\ pc' = "loop"
          /\ exc' = exc
       \/ /\ exc' = "OSError"
          /\ pc' = "finally"
          /\ UNCHANGED <<dirs, touched, dbIdx>>
    /\ UNCHANGED <<Server, Connections, alg_databases, DbLocals, ExportLocals,
                   files, lastLog, queries, run>>

(* ---- the for loop of lines 48-49 --------------------------------------- *)
loop_exit ==
    /\ pc = "loop"
    /\ dbIdx > Len(alg_databases)
    /\ pc' = "finally"
    /\ UNCHANGED <<Server, Connections, alg_databases, dbIdx, DbLocals,
                   ExportLocals, FileSystem, exc, lastLog, queries, run>>

(* _process_database_views creating the database's directory up front *)
process_database_views_eagerDir ==
    /\ pc = "loop"
    /\ dbIdx <= Len(alg_databases)
    /\ trace' = <<>>
    /\ dirs' = makedirs(dirs, DbDir(CurDb))
    /\ touched' = touched \cup {DbDir(CurDb)}
    /\ \/ /\ conn' = CurDb
          /\ openConns' = openConns \cup {CurDb}
          /\ viewIdx' = 1
          /\ lastLog' = "checking"
          /\ pc' = "views"
       \/ /\ conn' = "unbound"
          /\ openConns' = openConns
          /\ viewIdx' = 0
          /\ lastLog' = "db_error"
          /\ pc' = "db_finally"
    /\ UNCHANGED <<Server, self_conn, closedConns, masterOpens, alg_databases,
                   dbIdx, found, ExportLocals, files, exc, queries, run>>

(* ---- _process_database_views, lines 85-94: a new frame, conn unbound --- *)
process_database_views ==
    /\ pc = "loop"
    /\ dbIdx <= Len(alg_databases)
    /\ trace' = <<>>
    /\ \/ \* pyodbc.connect and conn.cursor() succeed
          /\ conn' = CurDb
          /\ openConns' = openConns \cup {CurDb}
          /\ viewIdx' = 1
          /\ lastLog' = "checking"
          /\ pc' = "views"
       \/ \* pyodbc.connect raises: conn is never bound; except logs
          /\ conn' = "unbound"
          /\ openConns' = openConns
          /\ viewIdx' = 0
          /\ lastLog' = "db_error"
          /\ pc' = "db_finally"
       \/ \* conn is bound, then conn.cursor() raises; except logs
          /\ conn' = CurDb
          /\ openConns' = openConns \cup {CurDb}
          /\ viewIdx' = 0
          /\ lastLog' = "db_error"
          /\ pc' = "db_finally"
    /\ UNCHANGED <<Server, self_conn, closedConns, masterOpens, alg_databases,
                   dbIdx, found, ExportLocals, FileSystem, exc, queries, run>>

ResetExportLocals ==
    /\ resultSet' = <<>>
    /\ pending' = <<>>
    /\ written' = 0
    /\ fetches' = 0
    /\ prior' = Absent

(* ---- _check_view_exists inside the loop of lines 97-101 ---------------- *)
check_view_exists ==
    /\ pc = "views"
    /\ viewIdx <= Len(target_views)
    /\ ResetExportLocals
    /\ \/ \* fetchone() is not None
          /\ pc' = "export"
          /\ found' = found \cup {CurDb}
          /\ UNCHANGED <<viewIdx, trace, lastLog>>
       \/ \* fetchone() is None: "View ... not found"
          /\ found' = found
          /\ trace' = Append(trace, "not_found")
          /\ lastLog' = "not_found"
          /\ viewIdx' = viewIdx + 1
          /\ pc' = "views"
       \/ \* execute or fetchone raises: caught at line 103
          /\ found' = found
          /\ trace' = Append(trace, "check_raised")
          /\ lastLog' = "db_error"
          /\ viewIdx' = viewIdx
          /\ pc' = "db_finally"
    /\ UNCHANGED <<Server, Connections, conn, alg_databases, dbIdx,
                   FileSystem, exc, queries, run>>

views_done ==
    /\ pc = "views"
    /\ viewIdx > Len(target_views)
    /\ ResetExportLocals
    /\ pc' = "db_finally"
    /\ UNCHANGED <<Server, Connections, alg_databases, dbIdx, DbLocals,
                   FileSystem, exc, lastLog, queries, run>>

(* _export_view without its try/except: the exception reaches line 103 *)
ExportFailed_propagate ==
    /\ trace' = Append(trace, "export_failed")
    /\ lastLog' = "db_error"
    /\ viewIdx' = viewIdx
    /\ pc' = "db_finally"

(* ---- _export_view, lines 140-165 --------------------------------------- *)
(* except Exception of line 164: log, return to the loop over the views *)
ExportFailed ==
    /\ trace' = Append(trace, "export_failed")
    /\ lastLog' = "view_error"
    /\ viewIdx' = viewIdx + 1
    /\ pc' = "views"

export_makedirs ==
    /\ pc = "export"
    /\ \/ /\ dirs' = makedirs(dirs, DbDir(CurDb))
          /\ touched' = touched \cup {DbDir(CurDb)}
          /\ pc' = "execute"
          /\ UNCHANGED <<viewIdx, trace, lastLog>>
       \/ /\ ExportFailed
          /\ UNCHANGED <<dirs, touched>>
    /\ UNCHANGED <<Server, Connections, conn, found, alg_databases, dbIdx,
                   ExportLocals, files, exc, queries, run>>

export_execute ==
    /\ pc = "execute"
    /\ \/ \E n \in 0..MaxRows :
             /\ resultSet' = ViewRows(n, dataVer)
             /\ pending' = ViewRows(n, dataVer)
             /\ pc' = "open"
             /\ UNCHANGED <<viewIdx, trace, lastLog>>
       \/ /\ ExportFailed
          /\ UNCHANGED <<resultSet, pending>>
    /\ UNCHANGED <<Server, Connections, conn, found, alg_databases, dbIdx,
                   written, fetches, prior, FileSystem, exc, queries, run>>

export_open ==
    /\ pc = "open"
    /\ \/ \* open(csv_path, 'w') and writer.writerow(columns)
          /\ prior' = files[CurPath]
          /\ files' = [files EXCEPT ![CurPath] =
                          [OpenForWrite(@) EXCEPT !.lines = writerow(@)]]
          /\ touched' = touched \cup {CurPath}
          /\ written' = 1
          /\ pc' = "fetch"
          /\ UNCHANGED <<viewIdx, trace, lastLog>>
       \/ \* open raises: the file is as it was
          /\ ExportFailed
          /\ UNCHANGED <<prior, files, touched, written>>
       \/ \* the file is opened, then writerow raises
          /\ prior' = files[CurPath]
          /\ files' = [files EXCEPT ![CurPath] = OpenForWrite(@)]
          /\ touched' = touched \cup {CurPath}
          /\ written' = 0
          /\ ExportFailed
    /\ UNCHANGED <<Server, Connections, conn, found, alg_databases, dbIdx,
                   resultSet, pending, fetches, dirs, exc, queries, run>>

export_fetch ==
    /\ pc = "fetch"
    /\ fetches' = fetches + 1
    /\ LET batch == fetchmany(pending, BatchSize) IN
       \/ \* if not batch: break; the file is closed; "Success"
          /\ batch = <<>>
          /\ trace' = Append(trace, "exported")
          /\ lastLog' = "success"
          /\ viewIdx' = viewIdx + 1
          /\ pc' = "views"
          /\ UNCHANGED <<pending, written, files>>
       \/ \* writer.writerows(batch)
          /\ batch # <<>>
          /\ files' = [files EXCEPT ![CurPath].lines = writerows(@, batch)]
          /\ pending' = AfterFetch(pending, BatchSize)
          /\ written' = written + Len(batch)
          /\ pc' = "fetch"
          /\ UNCHANGED <<viewIdx, trace, lastLog>>
       \/ \* fetchmany raises
          /\ ExportFailed
          /\ UNCHANGED <<pending, written, files>>
       \/ \* writerows raises after k rows of the batch
          /\ batch # <<>>
          /\ \E k \in 0..(Len(batch) - 1) :
                /\ files' = [files EXCEPT ![CurPath].lines =
                                 writerows(@, SubSeq(batch, 1, k))]
                /\ written' = written + k
          /\ pending' = AfterFetch(pending, BatchSize)
          /\ ExportFailed
    /\ UNCHANGED <<Server, Connections, conn, found, alg_databases, dbIdx,
                   resultSet, prior, dirs, touched, exc, queries, run>>

(* conn.close() at the end of the try block instead of in finally *)
process_finally_closeOnSuccessOnly ==
    /\ pc = "db_finally"
    /\ IF lastLog = "db_error"
          THEN UNCHANGED <<openConns, closedConns>>
          ELSE Close(conn)
    /\ exc' = exc
    /\ dbIdx' = dbIdx + 1
    /\ pc' = "loop"
    /\ conn' = "unbound"
    /\ UNCHANGED <<Server, self_conn, masterOpens, alg_databases, viewIdx,
                   trace, found, ExportLocals, FileSystem, lastLog, queries,
                   run>>

(* no conn.close() at all *)
process_finally_noClose ==
    /\ pc = "db_finally"
    /\ IF conn = "unbound"
          THEN /\ exc' = "UnboundLocalError"
               /\ pc' = "finally"
               /\ dbIdx' = dbIdx
          ELSE /\ exc' = exc
               /\ dbIdx' = dbIdx + 1
               /\ pc' = "loop"
    /\ conn' = "unbound"
    /\ UNCHANGED <<Server, Connections, alg_databases, viewIdx,
                   trace, found, ExportLocals, FileSystem, lastLog, queries,
                   run>>

(* ---- finally: conn.close(), line 106 ----------------------------------- *)
process_finally ==
    /\ pc = "db_finally"
    /\ IF conn = "unbound"
          THEN \* the name conn was never bound: UnboundLocalError
               /\ exc' = "UnboundLocalError"
               /\ pc' = "finally"
               /\ UNCHANGED <<openConns, closedConns, dbIdx>>
          ELSE /\ Close(conn)
               /\ exc' = exc
               /\ dbIdx' = dbIdx + 1
               /\ pc' = "loop"
    /\ conn' = "unbound"
    /\ UNCHANGED <<Server, self_conn, masterOpens, alg_databases, viewIdx,
                   trace, found, ExportLocals, FileSystem, lastLog, queries,
                   run>>

(* self.close() at the end of the try block instead of in finally *)
close_onSuccessOnly ==
    /\ pc = "finally"
    /\ IF self_conn # "None" /\ exc = "none"
          THEN Close(self_conn)
          ELSE UNCHANGED <<openConns, closedConns>>
    /\ pc' = "done"
    /\ UNCHANGED <<Server, self_conn, masterOpens, alg_databases, dbIdx,
                   DbLocals, ExportLocals, FileSystem, exc, lastLog, queries,
                   run>>

(* ---- finally of line 51: self.close(), lines 167-170 ------------------- *)
close ==
    /\ pc = "finally"
    /\ IF self_conn # "None"
          THEN Close(self_conn)
          ELSE UNCHANGED <<openConns, closedConns>>
    /\ pc' = "done"
    /\ UNCHANGED <<Server, self_conn, masterOpens, alg_databases, dbIdx,
                   DbLocals, ExportLocals, FileSystem, exc, lastLog, queries,
                   run>>

(* ---- the script is run again (lines 173-176): a new process ------------ *)
Rerun ==
    /\ pc = "done"
    /\ run < MaxRuns
    /\ run' = run + 1
    /\ dataVer' \in Versions
    /\ pc' = "start"
    /\ self_conn' = "None"
    /\ conn' = "unbound"
    /\ openConns' = {}
    /\ closedConns' = NoConnCounts
    /\ alg_databases' = <<>>
    /\ dbIdx' = 0
    /\ viewIdx' = 0
    /\ ResetExportLocals
    /\ touched' = {}
    /\ exc' = "none"
    /\ lastLog' = "none"
    /\ trace' = <<>>
    /\ found' = {}
    /\ queries' = 0
    /\ masterOpens' = 0
    /\ UNCHANGED <<online, dirs, files>>

(* one run of the script *)
Next ==
    \/ connect_to_master
    \/ get_alg_databases
    \/ make_output_dir
    \/ loop_exit
    \/ process_database_views
    \/ check_view_exists
    \/ views_done
    \/ export_makedirs
    \/ export_execute
    \/ export_open
    \/ export_fetch
    \/ process_finally
    \/ close

Spec == Init /\ [][Next]_vars

(* the script run up to MaxRuns times against a server with at most one   *)
(* _ALG_ database, the output of each run left in place for the next      *)
InitRerun == Init /\ Cardinality(online) <= 1

NextRerun == Next \/ Rerun

SpecRerun == InitRerun /\ [][NextRerun]_vars

(* ======================================================================= *)
(* Properties                                                              *)
(* ======================================================================= *)
Range(q) == {q[i] : i \in 1..Len(q)}
Last(q) == q[Len(q)]

(* positions inside one call of _process_database_views *)
InProcess == {"views", "export", "execute", "open", "fetch", "db_finally"}

(* the view whose export or check has just ended, and its file *)
DoneView == target_views[viewIdx - 1]
DonePath == CsvPath(CurDb, DoneView)

(* header and one line per row, in the order of rows *)
Expected(rows) == <<HeaderLine>> \o [i \in 1..Len(rows) |-> RowLine(rows[i])]

JustExported == pc = "views" /\ trace # <<>> /\ Last(trace) = "exported"
JustFailed == pc = "views" /\ trace # <<>> /\ Last(trace) = "export_failed"

(* C1: once the loop over the databases is entered, a failure while        *)
(* processing one database (a failing connection included) never aborts    *)
(* the run: the run ends without a propagating exception and with every    *)
(* discovered database processed.                                          *)
C1_DatabaseFailureNeverAborts ==
    (pc = "done" /\ dbIdx >= 1) =>
        (exc = "none" /\ dbIdx = Len(alg_databases) + 1)

(* C2: when the existence check of one view raises, every target view of  *)
(* the database is still attempted.                                        *)
C2_RemainingViewsAttempted ==
    (pc = "db_finally" /\ "check_raised" \in Range(trace)) =>
        Len(trace) = Len(target_views)

(* What the code does instead: the exception is caught by the except of    *)
(* line 103 and logged for the database; the views after the failing one   *)
(* are not attempted and their files are not touched, no exception         *)
(* propagates, the connection is closed and the loop goes on.              *)
CheckFailureEndsDatabase ==
    ("check_raised" \in Range(trace)) =>
        /\ Last(trace) = "check_raised"
        /\ Len(trace) = viewIdx
        /\ pc \in {"db_finally", "loop", "finally", "done"}
        /\ exc = "none"
        /\ pc = "db_finally" => (lastLog = "db_error" /\ conn = CurDb)
        /\ pc # "db_finally" =>
              /\ openConns \cap DbNames = {}
              /\ closedConns[alg_databases[dbIdx - 1]] = 1
        /\ LET db == IF pc = "db_finally" THEN CurDb
                     ELSE alg_databases[dbIdx - 1]
           IN \A v \in (viewIdx + 1)..Len(target_views) :
                  CsvPath(db, target_views[v]) \notin touched

(* C3: outside a call of _process_database_views no connection opened by   *)
(* it is open, however the call ended.                                     *)
C3_DbConnectionClosed ==
    (pc \notin InProcess) => (openConns \cap DbNames = {})

C3_Witness ==
    /\ pc = "loop"
    /\ dbIdx = 2
    /\ lastLog = "db_error"
    /\ closedConns[alg_databases[1]] = 1

(* C4: the catalog connection, once opened, stays open until the end of    *)
(* the run and is closed exactly once there, whatever the outcome.         *)
C4_CatalogClosedOnceAtEnd ==
    /\ closedConns[MasterId] <= 1
    /\ pc # "done" => closedConns[MasterId] = 0
    /\ (pc # "done" /\ self_conn # "None") => MasterId \in openConns
    /\ (pc = "done" /\ masterOpens > 0) =>
          (closedConns[MasterId] = 1 /\ MasterId \notin openConns)

C4_Witness ==
    /\ pc = "done"
    /\ exc = "UnboundLocalError"
    /\ dbIdx = 2
    /\ closedConns[MasterId] = 1

(* C5: at most two connections are open, the catalog connection and the    *)
(* connection of the database being processed; the catalog connection is   *)
(* opened at most once in a run.                                           *)
C5_AtMostTwoConnections ==
    /\ Cardinality(openConns) <= 2
    /\ Cardinality(openConns \cap DbNames) <= 1
    /\ openConns \cap DbNames # {} => (pc \in InProcess /\ openConns \cap DbNames = {conn})
    /\ masterOpens <= 1

C5_Witness ==
    /\ dbIdx = 2
    /\ pc = "views"
    /\ openConns = {MasterId, alg_databases[2]}
    /\ closedConns[alg_databases[1]] = 1

(* C6: when the catalog connection cannot be opened the run ends with the  *)
(* error propagating, without a discovery query, without a database        *)
(* connection and without any directory or file created.                   *)
C6_MasterFailureAborts ==
    (pc \in {"finally", "done"} /\ (masterOpens = 0 \/ queries = 0)) =>
        /\ exc = "pyodbc.Error"
        /\ queries = 0
        /\ openConns \cap DbNames = {}
        /\ \A db \in DbNames : closedConns[db] = 0
        /\ masterOpens = 0 => (openConns = {} /\ closedConns = NoConnCounts)
        /\ alg_databases = <<>>
        /\ dbIdx = 0
        /\ touched = {}
        /\ dirs = {}
        /\ \A f \in AllFilePaths : files[f] = Absent

C6_Witness ==
    pc = "done" /\ masterOpens = 0 /\ exc = "pyodbc.Error"

(* C7: an exception in _export_view is caught and logged there: nothing    *)
(* propagates, the lines already written stay in the file, the loop is at  *)
(* the next view with the database's connection open, and the processing   *)
(* of the database ends after a failed export only when that view was the  *)
(* last one.                                                               *)
C7_ExportFailureIsolated ==
    /\ JustFailed =>
          /\ lastLog = "view_error"
          /\ viewIdx = Len(trace) + 1
          /\ conn = CurDb
          /\ conn \in openConns
          /\ IF DonePath \in touched
                THEN files[DonePath] =
                        [exists |-> TRUE,
                         lines |-> SubSeq(Expected(resultSet), 1, written)]
                ELSE files[DonePath] = Absent
    /\ (trace # <<>> /\ Last(trace) = "export_failed") =>
          /\ exc = "none"
          /\ pc \in {"db_finally", "loop", "finally", "done"} =>
                Len(trace) = Len(target_views)
          /\ pc \in {"loop", "finally", "done"} =>
                (dbIdx >= 2 /\ closedConns[alg_databases[dbIdx - 1]] = 1)

C7_Witness ==
    /\ JustFailed
    /\ viewIdx = 2
    /\ Len(resultSet) = MaxRows
    /\ written > 1
    /\ written < Len(resultSet) + 1
    /\ Len(files[DonePath].lines) = written

(* C8: after a successful export of N rows the file holds the header and   *)
(* the N rows in the engine's order, and the loop made exactly the fetches *)
(* needed to reach the first empty batch.                                  *)
C8_ExportComplete ==
    JustExported =>
        /\ files[DonePath] = [exists |-> TRUE, lines |-> Expected(resultSet)]
        /\ Len(files[DonePath].lines) = Len(resultSet) + 1
        /\ pending = <<>>
        /\ fetches = ((Len(resultSet) + BatchSize - 1) \div BatchSize) + 1

C8_Witness ==
    /\ JustExported
    /\ Len(resultSet) > BatchSize
    /\ fetches >= 3

(* C9: a successful export over a file left by an earlier run leaves       *)
(* exactly the lines of this export, whatever the file held before.        *)
C9_RerunOverwrites ==
    (JustExported /\ prior.exists) =>
        /\ files[DonePath].lines = Expected(resultSet)
        /\ prior.lines = Expected(resultSet) => files[DonePath] = prior

C9_Witness ==
    /\ JustExported
    /\ run = 2
    /\ prior.exists
    /\ Len(prior.lines) > Len(resultSet) + 1
    /\ resultSet # <<>>
    /\ prior.lines[2] # files[DonePath].lines[2]

(* C10: the directory of a database, and any file in it, is created only   *)
(* after an existence check in that database returned true.                *)
C10_NoDirWithoutView ==
    \A db \in DbNames :
        (db \notin found) =>
            /\ DbDir(db) \notin (dirs \cup touched)
            /\ \A v \in 1..Len(target_views) :
                  /\ files[CsvPath(db, target_views[v])] = Absent
                  /\ CsvPath(db, target_views[v]) \notin touched

C10_Witness ==
    /\ pc = "done"
    /\ Len(alg_databases) = 2
    /\ alg_databases[1] \in found
    /\ alg_databases[2] \notin found
    /\ trace = <<"not_found", "not_found", "not_found">>
    /\ DbDir(alg_databases[1]) \in dirs
    /\ DbDir(alg_databases[2]) \notin dirs

====
